---- MODULE Spec2Model ----
(***************************************************************************)
(* translate_to_conlang of src/main.py: the tokenizer (re.findall), the    *)
(* cursor loop with its phrase lookahead, the single-word lookup and the   *)
(* case-preservation step.  A string is a sequence of one-character        *)
(* strings; a dictionary is a function from keys to replacements.          *)
(***************************************************************************)
EXTENDS Naturals, Sequences, FiniteSets

VARIABLES text, translation_dict, tokens, translated_tokens, i, token,
          translated, pc, branch, rule, result

vars == <<text, translation_dict, tokens, translated_tokens, i, token,
          translated, pc, branch, rule, result>>

(***************************************************************************)
(* Characters and the str methods used by the code.                        *)
(***************************************************************************)
LowerLetters == {"a", "l", "b", "y", "e", "g", "o", "d"}

UpperOf == [c \in LowerLetters |->
              CASE c = "a" -> "A" [] c = "l" -> "L" [] c = "b" -> "B"
                [] c = "y" -> "Y" [] c = "e" -> "E" [] c = "g" -> "G"
                [] c = "o" -> "O" [] c = "d" -> "D"]

UpperLetters == {UpperOf[c] : c \in LowerLetters}

Digits == {"1"}

Whitespace == {" "}

\* \w : letters, digits (and underscore)
IsWordChar(c) == c \in LowerLetters \cup UpperLetters \cup Digits

\* \s
IsSpaceChar(c) == c \in Whitespace

UpperChar(c) == IF c \in LowerLetters THEN UpperOf[c] ELSE c

LowerChar(c) == IF c \in UpperLetters
                THEN CHOOSE l \in LowerLetters : UpperOf[l] = c
                ELSE c

\* str.upper()
Upper(s) == [k \in 1..Len(s) |-> UpperChar(s[k])]

\* str.lower()
Lower(s) == [k \in 1..Len(s) |-> LowerChar(s[k])]

IsUpperStrLong(s) ==
    /\ Len(s) > 1
    /\ \E k \in 1..Len(s) : s[k] \in UpperLetters
    /\ \A k \in 1..Len(s) : s[k] \notin LowerLetters

\* str.isupper(): at least one cased character and no lowercase one
IsUpperStr(s) ==
    /\ \E k \in 1..Len(s) : s[k] \in UpperLetters
    /\ \A k \in 1..Len(s) : s[k] \notin LowerLetters

RECURSIVE Join(_)
\* "".join(list)
Join(ss) == IF ss = <<>> THEN <<>> ELSE Head(ss) \o Join(Tail(ss))

(***************************************************************************)
(* The string literals of the code.                                        *)
(***************************************************************************)
ALL == <<"a", "l", "l">>

SPACE_ALL == <<" ", "a", "l", "l">>

DASH == <<"-">>

BYE == <<"b", "y", "e">>

GOOD_BYE == <<"g", "o", "o", "d", "-", "b", "y", "e">>

(***************************************************************************)
(* re.findall(r'\w+|[^\w\s]|\s+', text)                                    *)
(***************************************************************************)
AltNoSpace(c) ==
    IF IsWordChar(c) THEN "word"
    ELSE IF ~IsSpaceChar(c) THEN "punct"
    ELSE "none"

\* the alternative of the pattern that matches at a character, tried in order
Alt(c) ==
    IF IsWordChar(c) THEN "word"
    ELSE IF ~IsSpaceChar(c) THEN "punct"
    ELSE IF IsSpaceChar(c) THEN "space"
    ELSE "none"

SameRunSplitDigits(c, d) ==
    \/ Alt(c) = "word" /\ Alt(d) = "word" /\ ((c \in Digits) <=> (d \in Digits))
    \/ Alt(c) = "space" /\ Alt(d) = "space"

\* whether d extends the match that began at c: the + of \w+ and \s+
SameRun(c, d) ==
    \/ Alt(c) = "word" /\ Alt(d) = "word"
    \/ Alt(c) = "space" /\ Alt(d) = "space"

\* last position of the greedy match starting at p
RunEnd(s, p) ==
    CHOOSE e \in p..Len(s) :
        /\ \A k \in (p+1)..e : SameRun(s[p], s[k])
        /\ (e < Len(s) => ~SameRun(s[p], s[e+1]))

RECURSIVE Scan(_, _)
Scan(s, p) ==
    IF p > Len(s) THEN <<>>
    ELSE IF Alt(s[p]) = "none" THEN Scan(s, p + 1)
    ELSE LET e == RunEnd(s, p) IN <<SubSeq(s, p, e)>> \o Scan(s, e + 1)

FindAll(s) == Scan(s, 1)

IsWordTokenAny(t) == TRUE

\* re.match(r'\w+', token)
IsWordToken(t) == t # <<>> /\ IsWordChar(t[1])

(***************************************************************************)
(* The lookup of one word token at cursor k (0-based, as in the code).     *)
(***************************************************************************)
Match(toks, k, dict) ==
    LET tok == toks[k + 1] IN
    IF k + 2 < Len(toks) /\ Lower(toks[k + 2]) = ALL
    THEN IF (Lower(tok) \o SPACE_ALL) \in DOMAIN dict
         THEN [branch |-> "all_hit", adv |-> 2,
               translated |-> dict[Lower(tok) \o SPACE_ALL]]
         ELSE [branch |-> "all_miss", adv |-> 1, translated |-> tok]
    ELSE IF k + 2 < Len(toks) /\ toks[k + 2] = DASH /\ Lower(toks[k + 3]) = BYE
    THEN IF GOOD_BYE \in DOMAIN dict
         THEN [branch |-> "bye_hit", adv |-> 3, translated |-> dict[GOOD_BYE]]
         ELSE [branch |-> "bye_miss", adv |-> 1, translated |-> tok]
    ELSE IF Lower(tok) \in DOMAIN dict
         THEN [branch |-> "single_hit", adv |-> 1, translated |-> dict[Lower(tok)]]
         ELSE [branch |-> "single_miss", adv |-> 1, translated |-> tok]

(***************************************************************************)
(* "Preserve original case".  translated[0] of an empty string raises      *)
(* IndexError.                                                             *)
(***************************************************************************)
PreserveCase(tok, tr) ==
    IF IsUpperStr(tok)
    THEN [raised |-> FALSE, rule |-> "upper", value |-> Upper(tr)]
    ELSE IF tok[1] \in UpperLetters /\ Len(tok) > 1
    THEN IF tr = <<>>
         THEN [raised |-> TRUE, rule |-> "capitalized", value |-> tr]
         ELSE [raised |-> FALSE, rule |-> "capitalized",
               value |-> <<UpperChar(tr[1])>> \o Lower(Tail(tr))]
    ELSE IF tok[1] \in UpperLetters
    THEN IF tr = <<>>
         THEN [raised |-> TRUE, rule |-> "len1", value |-> tr]
         ELSE [raised |-> FALSE, rule |-> "len1", value |-> <<UpperChar(tr[1])>>]
    ELSE [raised |-> FALSE, rule |-> "none", value |-> tr]

(***************************************************************************)
(* Inputs.                                                                 *)
(***************************************************************************)
MaxPieces == 3

Pieces == { <<"a">>, <<"A">>, <<"1">>, <<"-">>, <<",">>, <<" ">>,
            ALL, BYE, <<"B", "y", "e">>, <<"G", "o", "o", "d">> }

Texts == { Join(ps) : ps \in UNION { [1..n -> Pieces] : n \in 0..MaxPieces } }

Dict(keys, f) == [k \in keys |-> f[k]]

Entries ==
    [k \in { <<"a">>, <<"a", "a">>, <<"a", " ", "a", "l", "l">>, GOOD_BYE,
             <<"g", "o", "o", "d">>, BYE, ALL, <<"1">> } |->
        CASE k = <<"a">> -> <<"b", "O">>
          [] k = <<"a", "a">> -> <<"y", "o", "B">>
          [] k = <<"a", " ", "a", "l", "l">> -> <<"d", "O", "b">>
          [] k = GOOD_BYE -> <<"y", "e", "L">>
          [] k = <<"g", "o", "o", "d">> -> <<"b", "o">>
          [] k = BYE -> <<"o", "b">>
          [] k = ALL -> <<"l", "o">>
          [] k = <<"1">> -> <<"e">>]

Blank == [k \in { <<"a">>, <<"a", "a">>, GOOD_BYE, <<"g", "o", "o", "d">> } |-> <<>>]

Dicts ==
    { Dict({}, Entries),
      Dict({ <<"a">>, <<"a", " ", "a", "l", "l">> }, Entries),
      Dict({ <<"a">>, <<"a", "a">>, <<"g", "o", "o", "d">> }, Entries),
      Dict({ GOOD_BYE }, Entries),
      Dict({ GOOD_BYE, <<"a">>, BYE }, Entries),
      Dict({ ALL, BYE, <<"1">> }, Entries),
      Blank }

(***************************************************************************)
(* The call translate_to_conlang(text, translation_dict).                  *)
(***************************************************************************)
Init ==
    /\ text \in Texts
    /\ translation_dict \in Dicts
    /\ tokens = <<>>
    /\ translated_tokens = <<>>
    /\ i = 0
    /\ token = <<>>
    /\ translated = <<>>
    /\ pc = "start"
    /\ branch = "none"
    /\ rule = "none"
    /\ result = <<>>

\* tokens = re.findall(...); translated_tokens = []; i = 0
Tokenize ==
    /\ pc = "start"
    /\ tokens' = FindAll(text)
    /\ translated_tokens' = <<>>
    /\ i' = 0
    /\ pc' = "loop"
    /\ UNCHANGED <<text, translation_dict, token, translated, branch, rule, result>>

\* one iteration of the while loop
Step ==
    /\ pc = "loop"
    /\ i < Len(tokens)
    /\ token' = tokens[i + 1]
    /\ IF IsWordToken(tokens[i + 1])
       THEN LET m == Match(tokens, i, translation_dict)
                c == PreserveCase(tokens[i + 1], m.translated)
            IN  /\ branch' = m.branch
                /\ rule' = c.rule
                /\ i' = i + m.adv
                /\ translated' = c.value
                /\ IF c.raised
                   THEN /\ pc' = "error"
                        /\ UNCHANGED translated_tokens
                   ELSE /\ pc' = "loop"
                        /\ translated_tokens' = Append(translated_tokens, c.value)
       ELSE /\ branch' = "nonword"
            /\ rule' = "none"
            /\ i' = i + 1
            /\ translated' = tokens[i + 1]
            /\ pc' = "loop"
            /\ translated_tokens' = Append(translated_tokens, tokens[i + 1])
    /\ UNCHANGED <<text, translation_dict, tokens, result>>

\* return "".join(translated_tokens)
Return ==
    /\ pc = "loop"
    /\ i >= Len(tokens)
    /\ result' = Join(translated_tokens)
    /\ pc' = "done"
    /\ UNCHANGED <<text, translation_dict, tokens, translated_tokens, i, token,
                   translated, branch, rule>>

Next == Tokenize \/ Step \/ Return

Spec == Init /\ [][Next]_vars

(***************************************************************************)
(* Properties.                                                             *)
(***************************************************************************)
Emitted == pc \in {"loop", "done"} /\ branch # "none"

\* a punctuation token or a whitespace-run token, by the tokenizer's classes
NonWordTok(t) == t # <<>> /\ ~IsWordChar(t[1])

WordTok(t) == t # <<>> /\ IsWordChar(t[1])

AllCasedUpper(t) ==
    /\ \E k \in 1..Len(t) : t[k] \in UpperLetters
    /\ \A k \in 1..Len(t) : t[k] \notin LowerLetters

\* the case pattern of a word token re-applied to a replacement, as specified
ClaimCase(t, r) ==
    IF r = <<>> THEN r
    ELSE IF AllCasedUpper(t) THEN Upper(r)
    ELSE IF t[1] \in UpperLetters /\ Len(t) > 1
    THEN <<UpperChar(r[1])>> \o Lower(Tail(r))
    ELSE r

\* the replacement stored in the dictionary for the span matched last
Stored ==
    CASE branch = "all_hit" -> translation_dict[Lower(token) \o SPACE_ALL]
      [] branch = "bye_hit" -> translation_dict[GOOD_BYE]
      [] branch = "single_hit" -> translation_dict[Lower(token)]
      [] OTHER -> token

\* C1: with the keys "<w> all" and "<w>" both in the dictionary, the input
\* "<w> all" returns the phrase's replacement and the input "<w>" returns the
\* single-word replacement.
C1_PhrasePriority ==
    pc = "done" =>
        \A w \in DOMAIN translation_dict :
            (w \o SPACE_ALL) \in DOMAIN translation_dict =>
                /\ text = w \o SPACE_ALL => result = translation_dict[w \o SPACE_ALL]
                /\ text = w => result = translation_dict[w]

\* C2: a token whose lowercase form is no dictionary key and which is not
\* part of a matched phrase is emitted exactly as it was read, whatever its
\* casing.
C2_Passthrough ==
    (Emitted /\ branch \notin {"all_hit", "bye_hit"}
             /\ Lower(token) \notin DOMAIN translation_dict)
        => translated = token /\ translated_tokens[Len(translated_tokens)] = token

\* C3: the tokens are word runs, single punctuation characters and whitespace
\* runs, and concatenated in order they give back the input text exactly.
C3_Lossless ==
    pc # "start" =>
        /\ Join(tokens) = text
        /\ \A k \in 1..Len(tokens) :
              LET t == tokens[k] IN
              /\ t # <<>>
              /\ \/ \A j \in 1..Len(t) : IsWordChar(t[j])
                 \/ Len(t) = 1 /\ ~IsWordChar(t[1]) /\ ~IsSpaceChar(t[1])
                 \/ \A j \in 1..Len(t) : IsSpaceChar(t[j])

C3_Witness ==
    /\ pc = "loop"
    /\ text = <<"G", "o", "o", "d", ",", " ">>
    /\ tokens = << <<"G", "o", "o", "d">>, <<",">>, <<" ">> >>

\* C4: a word token whose lowercase form is a key with a non-empty replacement
\* r is emitted as upper(r) when the token is all uppercase, as r capitalized
\* when only its first character is uppercase and it is longer than one
\* character, and as r exactly as stored when its first character is not
\* uppercase.
C4_CaseLaws ==
    (Emitted /\ branch \notin {"nonword", "all_hit", "bye_hit"}
             /\ Lower(token) \in DOMAIN translation_dict
             /\ translation_dict[Lower(token)] # <<>>)
        => translated = ClaimCase(token, translation_dict[Lower(token)])

C5_Step ==
    /\ (pc = "loop" /\ i < Len(tokens) /\ NonWordTok(tokens[i + 1])) =>
          /\ translated_tokens' = Append(translated_tokens, tokens[i + 1])
          /\ i' = i + 1
          /\ rule' = "none"
    /\ (pc = "loop" /\ i < Len(tokens) /\ WordTok(tokens[i + 1])) =>
          /\ SubSeq(translated_tokens', 1, Len(translated_tokens)) = translated_tokens
          /\ Len(translated_tokens') <= Len(translated_tokens) + 1
          /\ \/ i' = i + 1
             \/ /\ i' = i + 3
                /\ tokens[i + 2] = DASH
                /\ WordTok(tokens[i + 3])
                /\ GOOD_BYE \in DOMAIN translation_dict
    /\ (pc = "loop" /\ i >= Len(tokens)) => result' = Join(translated_tokens)

GoodByeAhead ==
    /\ pc = "loop"
    /\ i + 2 < Len(tokens)
    /\ WordTok(tokens[i + 1])
    /\ tokens[i + 2] = DASH
    /\ Lower(tokens[i + 3]) = BYE

\* C6: with the key "good-bye" in the dictionary, a word token followed by
\* "-" and by "bye" (in any case) is consumed with them: the cursor advances
\* by 3 and one token is emitted, the "good-bye" replacement in the case
\* pattern of the first token.
C6_GoodBye ==
    [][(GoodByeAhead /\ GOOD_BYE \in DOMAIN translation_dict) =>
          /\ i' = i + 3
          /\ translated_tokens' =
                Append(translated_tokens,
                       ClaimCase(tokens[i + 1], translation_dict[GOOD_BYE]))]_vars

\* C7: the call never raises, whatever the text and the dictionary, an empty
\* replacement included.
C7_NoError == pc # "error"

\* C8: without the key "good-bye", a word token followed by "-" and "bye" is
\* handled as a single word: its mapped value in its case pattern when its
\* lowercase form is a key, the token itself otherwise; the cursor advances
\* by 1.
C8_FallThrough ==
    [][(GoodByeAhead /\ GOOD_BYE \notin DOMAIN translation_dict) =>
          /\ i' = i + 1
          /\ translated_tokens' =
                Append(translated_tokens,
                       IF Lower(tokens[i + 1]) \in DOMAIN translation_dict
                       THEN ClaimCase(tokens[i + 1],
                                      translation_dict[Lower(tokens[i + 1])])
                       ELSE tokens[i + 1])]_vars

====
